---- MODULE Spec2Model ----
(***************************************************************************)
(* Model of the Vello test client (src/src/lib.rs): the asynchronous       *)
(* start-up in run_app, the renderer table built by run, and the three     *)
(* window-event handlers of VelloClient (CloseRequested, Resized,          *)
(* RedrawRequested).                                                       *)
(*                                                                         *)
(* Option<T> values are sequences of length 0 (None) or 1 (Some(x)).       *)
(* A u32 or f64 quantity that a wrapping subtraction can push beyond the   *)
(* range of the checker's integers is kept as a pair <<hi, lo>> standing   *)
(* for hi * 2^16 + lo with lo in 0 .. 2^16 - 1 ("wide" value).             *)
(***************************************************************************)
EXTENDS Integers, Sequences, FiniteSets, TLC

\* ------------------------------------------------------------------ bounds
\* Largest number of entries of RenderContext::devices after create_surface.
MaxDevices == 2

\* Largest number of Resized events in a row that carry the same size.
MaxRepeats == 2

\* Physical sizes the window system may report (width, height), chosen to
\* cover zero, an extent below the 20 pixel band (height 10), an extent of at
\* most 2 * MARGIN that is not below the band (width 100), and the sizes of
\* the end-to-end scenarios.
Widths == {0, 100, 400, 800}
Heights == {0, 10, 300, 600}

\* Sizes the window has when the surface is created.
StartSizes == {<<800, 600>>, <<400, 300>>}

\* Texture formats create_surface may select.
Formats == {"Bgra8Unorm", "Rgba8Unorm"}

\* --------------------------------------------------------------- constants
\* const MARGIN: f64 = 50.0
MARGIN == 50

\* The literal subtracted from the configured size at the top of a redraw.
BAND == 20

\* ------------------------------------------------------- u32 / f64 helpers
Half == 2 ^ 16

\* An integer as a wide value (floor division: a negative n gets a negative hi).
ToWide(n) == <<n \div Half, n % Half>>

\* u32 subtraction a - b as the release build computes it (modulo 2^32).
wrapping_sub(a, b) == <<((a - b) \div Half) % Half, (a - b) % Half>>

\* `a - b` on u32 overflows exactly when a < b.
sub_overflows(a, b) == a < b

\* `v as f64 - m` for a u32 v held as a wide value: exact in f64.
as_f64_minus(v, m) == <<v[1] + ((v[2] - m) \div Half), (v[2] - m) % Half>>

\* ------------------------------------------------------------------- state
VARIABLES
    pc,               \* where the program is: "init", "spawned", "creating",
                      \* "running", "closing", "notice", "panicked"
    overflow_checks,  \* whether the build traps on integer overflow
    size,             \* Option: the PhysicalSize computed by the start-up task
    devices,          \* RenderContext::devices (device handles, by index)
    surface,          \* Option<RenderSurface>: dev_id, format, config
    renderers,        \* VelloClient::renderers: Vec<Option<Renderer>>
    scene,            \* VelloClient::scene: the primitives it holds
    redraw_requested, \* the window's pending request_redraw()
    started,          \* event_loop.run_app(&mut app) has been called
    observed,         \* Option: the physical size the program saw last
    lastEvent,        \* the WindowEvent handled last ("none" before the first)
    closed,           \* a CloseRequested event has been handled
    notices,          \* number of calls of display_error_message
    rendered,         \* render_to_surface has been invoked at least once
    creation,         \* how create_surface ended: "pending", "ok", "failed"
    renderer,         \* how Renderer::new ended: "none" (not called), "ok", "failed"
    early,            \* the window raised an event that no event loop has taken over
    streak,           \* number of Resized events handled last in a row with one size
    reconfigs,        \* number of resize_surface calls made for those events
    frame             \* what the last RedrawRequested did: the calls it made, whether
                      \* it returned (done), whether get_current_texture succeeded,
                      \* whether the scene held primitives on entry (reused), the
                      \* configured size it read, its render parameters, the size of
                      \* the texture and the device index it used

vars == <<pc, overflow_checks, size, devices, surface, renderers, scene, redraw_requested, started, observed, lastEvent, closed, notices, rendered, creation, renderer, early, streak, reconfigs, frame>>

\* ---------------------------------------------------- library operations
\* The RenderSurface that create_surface returns on success.  Device indices
\* are 1-based here (0-based in the program).
create_surface(id, fmt, w, h) == [dev_id |-> id, format |-> fmt, config |-> [width |-> w, height |-> h, present_mode |-> "AutoVsync"]]

\* A plausible slip: the new size is not stored.
resize_surface_stale(s, w, h) == s

\* A plausible slip: only the width is stored.
resize_surface_width_only(s, w, h) == [s EXCEPT !.config.width = w]

\* A plausible slip: the surface is re-created at the new size on the first
\* device of the context.
resize_surface_rebinds(s, w, h) == create_surface(1, s.format, w, h)

\* RenderContext::resize_surface: stores the new size in the configuration
\* and reconfigures the surface with it.
resize_surface(s, w, h) == [s EXCEPT !.config.width = w, !.config.height = h]

\* A plausible change: a Resized event that repeats the size of the previous
\* one is recognised and the surface is not resized again.
resize_calls_dedup(repeat) == IF repeat THEN 0 ELSE 1

\* The number of resize_surface calls the Resized handler makes for one
\* event (42-43): one, whether or not the event repeats the previous size.
resize_calls(repeat) == 1

\* A plausible slip: the redraw request is left out.
request_redraw_dropped(r) == r

\* self.window.request_redraw() (44): a redraw is pending afterwards.
request_redraw(r) == TRUE

\* A plausible slip: the scene is not cleared.
reset_omitted(sc) == sc

\* Scene::reset and Scene::stroke.
reset(sc) == <<>>
stroke(sc, shape) == Append(sc, shape)

\* ------------------------------------------------------------ run (136-159)
\* A plausible slip: the renderer is stored in the first slot, not at dev_id.
new_renderers_first_slot(n, id, fmt) == [i \in 1 .. n |-> IF i = 1 THEN <<[device |-> id, format |-> fmt]>> ELSE <<>>]

\* The renderer table: one slot per device, None everywhere except at the
\* surface's device, which holds the renderer built for the surface format.
new_renderers(n, id, fmt) == [i \in 1 .. n |-> IF i = id THEN <<[device |-> id, format |-> fmt]>> ELSE <<>>]

\* --------------------------------------------------- RedrawRequested parts
\* let width = self.surface.config.width - 20
target_extent(configured) == wrapping_sub(configured, BAND)

\* Rect::new(MARGIN, MARGIN, width as f64 - MARGIN * 2.0, height as f64 - MARGIN * 2.0)
make_rect(width, height) == [x0 |-> ToWide(MARGIN), y0 |-> ToWide(MARGIN), x1 |-> as_f64_minus(width, MARGIN * 2), y1 |-> as_f64_minus(height, MARGIN * 2)]

\* vello::RenderParams { width, height, .. }
render_params(width, height) == [width |-> width, height |-> height]

\* A plausible slip: the texture is presented before it is rendered to.
frame_steps_present_first(acquired, slot, drawn) == <<"reset", "stroke", "get_current_texture">> \o (IF acquired /\ slot THEN <<"present", "render_to_surface">> \o (IF drawn THEN <<"poll">> ELSE <<>>) ELSE <<>>)

\* A plausible slip: a failed texture acquisition is not treated as fatal.
frame_steps_acquire_unchecked(acquired, slot, drawn) == <<"reset", "stroke", "get_current_texture">> \o (IF slot THEN <<"render_to_surface">> \o (IF drawn THEN <<"present", "poll">> ELSE <<>>) ELSE <<>>)

\* The calls one RedrawRequested makes, in program order, given which of the
\* fallible ones succeed: get_current_texture (.expect), the renderer lookup
\* (.unwrap) and render_to_surface (.expect).  A failure panics, so nothing
\* after it runs.
frame_steps(acquired, slot, drawn) == <<"reset", "stroke", "get_current_texture">> \o (IF acquired /\ slot THEN <<"render_to_surface">> \o (IF drawn THEN <<"present", "poll">> ELSE <<>>) ELSE <<>>)

\* A plausible slip: the loop is not told to exit.
exit_ignored(p) == p

\* event_loop.exit(): the loop stops delivering events to the handler.
exit(p) == "closing"

NoFrame == [steps |-> <<>>, done |-> FALSE, acquired |-> FALSE, reused |-> FALSE, source |-> <<0, 0>>, params |-> render_params(ToWide(0), ToWide(0)), texture |-> <<0, 0>>, device |-> 0]

\* -------------------------------------------------------------------- Init
Init ==
    /\ pc = "init"
    /\ overflow_checks \in BOOLEAN
    /\ size = <<>>
    /\ devices = <<>>
    /\ surface = <<>>
    /\ renderers = <<>>
    /\ scene = <<>>
    /\ redraw_requested = FALSE
    /\ started = FALSE
    /\ observed = <<>>
    /\ lastEvent = "none"
    /\ closed = FALSE
    /\ notices = 0
    /\ rendered = FALSE
    /\ creation = "pending"
    /\ renderer = "none"
    /\ early = FALSE
    /\ streak = 0
    /\ reconfigs = 0
    /\ frame = NoFrame

\* ----------------------------------------------------------------- run_app
\* run_app (190-206, 240): the event loop, the render context (no device
\* yet) and the window are created, the start-up task is spawned, and
\* run_app returns Ok(()).
run_app ==
    /\ pc = "init"
    /\ pc' = "spawned"
    /\ UNCHANGED <<overflow_checks, size, devices, surface, renderers, scene, redraw_requested, started, observed, lastEvent, closed, notices, rendered, creation, frame>>
    /\ UNCHANGED <<renderer, early, streak, reconfigs>>

\* The task up to its await (208-232): the window's physical size is computed
\* and requested, and create_surface is called with it.
task_begin ==
    /\ pc = "spawned"
    /\ \E sz \in StartSizes : size' = <<sz>>
    /\ pc' = "creating"
    /\ UNCHANGED <<overflow_checks, devices, surface, renderers, scene, redraw_requested, started, observed, lastEvent, closed, notices, rendered, creation, frame>>
    /\ UNCHANGED <<renderer, early, streak, reconfigs>>

\* A plausible slip: an event handler is installed before the surface
\* exists, and a window event raised meanwhile reaches it.
window_event_before_loop_dispatched ==
    /\ pc \in {"spawned", "creating"}
    /\ early' = TRUE
    /\ lastEvent' = "Resized"
    /\ pc' = "panicked"
    /\ UNCHANGED <<overflow_checks, size, devices, surface, renderers, scene, redraw_requested, started, observed, closed, notices, rendered, creation, renderer, streak, reconfigs, frame>>

\* The window raises an event (a resize, a redraw request) after run_app has
\* created it (197) and before run calls event_loop.run_app (169): no
\* VelloClient exists yet and no loop is running, so no handler is called;
\* the event waits for the loop or is lost.
window_event_before_loop ==
    /\ pc \in {"spawned", "creating"}
    /\ early' = TRUE
    /\ UNCHANGED <<pc, overflow_checks, size, devices, surface, renderers, scene, redraw_requested, started, observed, lastEvent, closed, notices, rendered, creation, renderer, streak, reconfigs, frame>>

\* create_surface resolves to Ok(surface) and run(..) is entered (233-235,
\* 130-169): Renderer::new succeeds, the renderer table and the VelloClient
\* are built, and event_loop.run_app starts delivering events.
create_surface_ok_run ==
    /\ pc = "creating"
    /\ \E n \in 1 .. MaxDevices, id \in 1 .. MaxDevices, fmt \in Formats :
          /\ id <= n
          /\ devices' = [i \in 1 .. n |-> i]
          /\ surface' = <<create_surface(id, fmt, size[1][1], size[1][2])>>
          /\ renderers' = new_renderers(n, id, fmt)
    /\ observed' = size
    /\ scene' = <<>>
    /\ started' = TRUE
    /\ creation' = "ok"
    /\ pc' = "running"
    /\ UNCHANGED <<overflow_checks, size, redraw_requested, lastEvent, closed, notices, rendered, frame>>
    /\ renderer' = "ok"
    /\ early' = FALSE
    /\ UNCHANGED <<streak, reconfigs>>

\* A plausible slip: the renderer error is printed but not unwrapped, and run
\* goes on with an empty slot for the surface's device.
create_surface_ok_renderer_fails_continues ==
    /\ pc = "creating"
    /\ \E n \in 1 .. MaxDevices, id \in 1 .. MaxDevices, fmt \in Formats :
          /\ id <= n
          /\ devices' = [i \in 1 .. n |-> i]
          /\ surface' = <<create_surface(id, fmt, size[1][1], size[1][2])>>
          /\ renderers' = [i \in 1 .. n |-> <<>>]
    /\ observed' = size
    /\ creation' = "ok"
    /\ renderer' = "failed"
    /\ started' = TRUE
    /\ early' = FALSE
    /\ pc' = "running"
    /\ UNCHANGED <<overflow_checks, size, scene, redraw_requested, lastEvent, closed, notices, rendered, streak, reconfigs, frame>>

\* create_surface resolves to Ok(surface) but Renderer::new fails: the
\* .expect("Failed to create renderer") at 156 panics inside run, before the
\* VelloClient exists and before the event loop is run.
create_surface_ok_renderer_fails ==
    /\ pc = "creating"
    /\ \E n \in 1 .. MaxDevices, id \in 1 .. MaxDevices, fmt \in Formats :
          /\ id <= n
          /\ devices' = [i \in 1 .. n |-> i]
          /\ surface' = <<create_surface(id, fmt, size[1][1], size[1][2])>>
    /\ observed' = size
    /\ creation' = "ok"
    /\ pc' = "panicked"
    /\ UNCHANGED <<overflow_checks, size, renderers, scene, redraw_requested, started, lastEvent, closed, notices, rendered, frame>>
    /\ renderer' = "failed"
    /\ UNCHANGED <<early, streak, reconfigs>>

\* A plausible slip: the result of create_surface is not examined and the
\* event loop is run although there is no surface.
create_surface_failed_unchecked ==
    /\ pc = "creating"
    /\ creation' = "failed"
    /\ started' = TRUE
    /\ pc' = "running"
    /\ UNCHANGED <<overflow_checks, size, devices, surface, renderers, scene, redraw_requested, observed, lastEvent, closed, notices, rendered, frame>>
    /\ UNCHANGED <<renderer, early, streak, reconfigs>>

\* A plausible slip: the failure is swallowed without the notice.
create_surface_failed_silent ==
    /\ pc = "creating"
    /\ creation' = "failed"
    /\ pc' = "notice"
    /\ UNCHANGED <<overflow_checks, size, devices, surface, renderers, scene, redraw_requested, started, observed, lastEvent, closed, notices, rendered, frame>>
    /\ UNCHANGED <<renderer, early, streak, reconfigs>>

\* create_surface resolves to Err(_) (236-238): display_error_message is
\* called and the task ends; run is not entered.
create_surface_failed ==
    /\ pc = "creating"
    /\ creation' = "failed"
    /\ notices' = notices + 1
    /\ pc' = "notice"
    /\ UNCHANGED <<overflow_checks, size, devices, surface, renderers, scene, redraw_requested, started, observed, lastEvent, closed, rendered, frame>>
    /\ UNCHANGED <<renderer, early, streak, reconfigs>>

\* ------------------------------------------------- VelloClient::window_event
\* The handlers run one at a time, each to completion, on the single loop
\* task.  resumed (32) and about_to_wait (105-107) have empty bodies and
\* change nothing, so they have no action.
\* WindowEvent::CloseRequested (36-39).
CloseRequested ==
    /\ pc = "running"
    /\ pc' = exit(pc)
    /\ closed' = TRUE
    /\ lastEvent' = "CloseRequested"
    /\ UNCHANGED <<overflow_checks, size, devices, surface, renderers, scene, redraw_requested, started, observed, notices, rendered, creation, frame>>
    /\ streak' = 0
    /\ reconfigs' = 0
    /\ UNCHANGED <<renderer, early>>

\* WindowEvent::Resized(size) (41-46): the surface is resized to the size the
\* event carries, whatever it is, and a redraw is requested.
Resized ==
    /\ pc = "running"
    /\ \E w \in Widths, h \in Heights :
          LET repeat == lastEvent = "Resized" /\ observed = <<(<<w, h>>)>>
          IN  /\ repeat => streak < MaxRepeats
              /\ surface' = <<resize_surface(surface[1], w, h)>>
              /\ observed' = <<(<<w, h>>)>>
              /\ streak' = (IF repeat THEN streak ELSE 0) + 1
              /\ reconfigs' = (IF repeat THEN reconfigs ELSE 0) + resize_calls(repeat)
    /\ redraw_requested' = request_redraw(redraw_requested)
    /\ lastEvent' = "Resized"
    /\ UNCHANGED <<pc, overflow_checks, size, devices, renderers, scene, started, closed, notices, rendered, creation, frame>>
    /\ UNCHANGED <<renderer, early>>

\* WindowEvent::RedrawRequested (48-100).  The two subtractions at 50-51 come
\* first: with overflow checks a configured extent below 20 panics there,
\* without them the result wraps.  Then the scene is rebuilt, the texture is
\* acquired, the scene is rendered, the texture presented and the device
\* polled; get_current_texture and render_to_surface may each fail, and a
\* failure panics.
RedrawRequested ==
    /\ pc = "running"
    /\ \E acquired \in BOOLEAN, drawn \in BOOLEAN :
          LET s == surface[1]
              cw == s.config.width
              ch == s.config.height
              trap == overflow_checks /\ (sub_overflows(cw, BAND) \/ sub_overflows(ch, BAND))
              width == target_extent(cw)
              height == target_extent(ch)
              slot == renderers[s.dev_id] # <<>>
              steps == frame_steps(acquired, slot, drawn)
              invoked == \E i \in 1 .. Len(steps) : steps[i] = "render_to_surface"
              ok == acquired /\ slot /\ drawn
          IN  IF trap
              THEN /\ pc' = "panicked"
                   /\ frame' = [NoFrame EXCEPT !.source = <<cw, ch>>]
                   /\ UNCHANGED <<scene, rendered>>
              ELSE /\ scene' = stroke(reset(scene), make_rect(width, height))
                   /\ frame' = [steps |-> steps, done |-> ok, acquired |-> acquired, reused |-> scene # <<>>, source |-> <<cw, ch>>, params |-> render_params(width, height), texture |-> <<cw, ch>>, device |-> s.dev_id]
                   /\ rendered' = (rendered \/ invoked)
                   /\ pc' = IF ok THEN "running" ELSE "panicked"
    /\ redraw_requested' = FALSE
    /\ lastEvent' = "RedrawRequested"
    /\ UNCHANGED <<overflow_checks, size, devices, surface, renderers, started, observed, closed, notices, creation>>
    /\ streak' = 0
    /\ reconfigs' = 0
    /\ UNCHANGED <<renderer, early>>

\* Any other WindowEvent (101): ignored.
OtherEvent ==
    /\ pc = "running"
    /\ lastEvent' = "Other"
    /\ UNCHANGED <<pc, overflow_checks, size, devices, surface, renderers, scene, redraw_requested, started, observed, closed, notices, rendered, creation, frame>>
    /\ streak' = 0
    /\ reconfigs' = 0
    /\ UNCHANGED <<renderer, early>>

\* -------------------------------------------------------------------- Next
Next ==
    \/ run_app
    \/ task_begin
    \/ window_event_before_loop
    \/ create_surface_ok_run
    \/ create_surface_ok_renderer_fails
    \/ create_surface_failed
    \/ CloseRequested
    \/ Resized
    \/ RedrawRequested
    \/ OtherEvent

Spec == Init /\ [][Next]_vars

\* The window system delivers a RedrawRequested event for a pending
\* request_redraw() as long as the loop is running.
DeliverRedraw == redraw_requested /\ RedrawRequested

FairSpec == Init /\ [][Next]_vars /\ WF_vars(DeliverRedraw)

\* ================================================================== claims
Has(steps, name) == \E i \in 1 .. Len(steps) : steps[i] = name

IsPrefix(a, b) == Len(a) <= Len(b) /\ \A i \in 1 .. Len(a) : a[i] = b[i]

\* The per-frame sequence as the specification states it.
FrameSequence == <<"reset", "stroke", "get_current_texture", "render_to_surface", "present", "poll">>

\* C1: once the surface exists, its configured (width, height) is the
\* physical size the program observed last: the creation size until a Resized
\* event is handled, and the size carried by the last Resized event after.
C1_ConfigIsLastObservedSize ==
    surface # <<>> => observed = <<(<<surface[1].config.width, surface[1].config.height>>)>>

C1_Witness ==
    /\ lastEvent = "Resized"
    /\ size = <<(<<800, 600>>)>>
    /\ observed = <<(<<400, 300>>)>>
    /\ surface[1].config.width = 400
    /\ surface[1].config.height = 300

\* C2: no handler runs and no frame is rendered unless create_surface has
\* succeeded, the surface has been handed to the loop and the renderer for
\* its device has been constructed.
C2_RenderOnlyAfterSurface ==
    (started \/ rendered \/ lastEvent # "none" \/ frame # NoFrame)
        => (creation = "ok" /\ surface # <<>> /\ renderers # <<>> /\ renderers[surface[1].dev_id] # <<>>)

C2_Witness ==
    /\ rendered
    /\ frame.done
    /\ creation = "ok"
    /\ Has(frame.steps, "render_to_surface")

\* C3: a frame built for a surface configured at (W, H) holds the single
\* rectangle (MARGIN, MARGIN) - (W - 2 * MARGIN, H - 2 * MARGIN).
C3_RectangleInsetByMargin ==
    frame.steps # <<>>
        => scene = <<[x0 |-> ToWide(MARGIN), y0 |-> ToWide(MARGIN), x1 |-> ToWide(frame.source[1] - 2 * MARGIN), y1 |-> ToWide(frame.source[2] - 2 * MARGIN)]>>

\* C4: a frame handled after Resized(w, h), with no later Resized, reads the
\* configuration (w, h): its texture and its rectangle come from (w, h).
C4_FrameUsesResizedConfiguration ==
    (lastEvent = "RedrawRequested" /\ frame.steps # <<>>)
        => /\ frame.source = observed[1]
           /\ frame.texture = observed[1]
           /\ scene = <<make_rect(target_extent(observed[1][1]), target_extent(observed[1][2]))>>

C4_Witness ==
    /\ lastEvent = "RedrawRequested"
    /\ frame.done
    /\ size = <<(<<800, 600>>)>>
    /\ observed = <<(<<400, 300>>)>>
    /\ frame.source = <<400, 300>>

\* C5: whenever render_to_surface is invoked, the width and height of its
\* render parameters are the dimensions of the acquired texture.
C5_RenderParamsMatchTexture ==
    Has(frame.steps, "render_to_surface")
        => frame.params = [width |-> ToWide(frame.texture[1]), height |-> ToWide(frame.texture[2])]

\* C6: handling a Resized event whose width or height is zero neither fails
\* nor changes the surface configuration, and no frame is rendered from a
\* configuration with a zero dimension.
C6_ZeroResizeDeferred ==
    [][/\ (lastEvent' = "Resized" /\ (observed'[1][1] = 0 \/ observed'[1][2] = 0))
            => (surface' = surface /\ pc' = "running")
       /\ (lastEvent' = "RedrawRequested" /\ Has(frame'.steps, "render_to_surface"))
            => (frame'.source[1] # 0 /\ frame'.source[2] # 0)]_vars

\* C7: once CloseRequested has been handled the loop is closing and no
\* further event is handled: CloseRequested stays the last event handled.
C7_NoRedrawAfterClose ==
    closed => (pc = "closing" /\ lastEvent = "CloseRequested")

C7_Witness ==
    /\ closed
    /\ pc = "closing"
    /\ redraw_requested
    /\ rendered

\* C8: if create_surface fails, display_error_message is called exactly once,
\* the event loop is never run, no renderer is constructed and no frame is
\* rendered; without such a failure the notice is never shown.
C8_CreationFailureShowsNoticeOnce ==
    /\ creation = "failed"
          => (notices = 1 /\ pc = "notice" /\ ~started /\ renderers = <<>> /\ ~rendered /\ frame = NoFrame /\ lastEvent = "none")
    /\ creation # "failed" => notices = 0

C8_Witness ==
    /\ creation = "failed"
    /\ notices = 1
    /\ pc = "notice"

\* C9 as stated: every handled RedrawRequested performs all six steps.
C9_EveryRedrawRunsAllSteps ==
    lastEvent = "RedrawRequested" => frame.steps = FrameSequence

\* C9 (amended): the steps of a handled RedrawRequested are an initial part
\* of reset, stroke, get_current_texture, render_to_surface, present, poll, in
\* that order and each at most once; a redraw that returns without a panic
\* performs all six.
C9_FrameStepsInOrder ==
    /\ IsPrefix(frame.steps, FrameSequence)
    /\ frame.done => frame.steps = FrameSequence
    /\ (lastEvent = "RedrawRequested" /\ pc = "running") => frame.done

C9_Witness ==
    /\ lastEvent = "RedrawRequested"
    /\ pc = "running"
    /\ frame.done
    /\ frame.steps = FrameSequence

\* C10: while the loop runs the renderer table has one slot per device, the
\* slot of the surface's device holds the renderer built for that device and
\* the surface format, every other slot is None, and each frame's lookup
\* uses the surface's device.
C10_RendererTableShape ==
    started
        => /\ Len(renderers) = Len(devices)
           /\ surface[1].dev_id \in 1 .. Len(renderers)
           /\ \A i \in 1 .. Len(renderers) :
                 renderers[i] = IF i = surface[1].dev_id THEN <<[device |-> i, format |-> surface[1].format]>> ELSE <<>>
           /\ frame.steps # <<>> => frame.device = surface[1].dev_id

C10_Witness ==
    /\ started
    /\ Len(devices) = 2
    /\ surface[1].dev_id = 2
    /\ renderers[1] = <<>>
    /\ frame.done


\* C11: a RedrawRequested handled for a configuration with a dimension of at
\* most 2 * MARGIN builds its scene, and the target width and height it
\* computes are the configured ones minus 20, without underflow.
C11_SmallSurfaceSceneBuilds ==
    (lastEvent = "RedrawRequested" /\ (frame.source[1] <= 2 * MARGIN \/ frame.source[2] <= 2 * MARGIN))
        => /\ Has(frame.steps, "stroke")
           /\ frame.source[1] >= BAND /\ frame.params.width = ToWide(frame.source[1] - BAND)
           /\ frame.source[2] >= BAND /\ frame.params.height = ToWide(frame.source[2] - BAND)


\* A step that handles a Resized event carrying the size of the Resized
\* event handled just before it.
RepeatedResize == lastEvent = "Resized" /\ lastEvent' = "Resized" /\ streak' = streak + 1

\* C12 as stated: the second of two Resized events with the same size leaves
\* the configuration as it is and resizes the surface no further.
C12_RepeatedResizeIsNoOp ==
    [][RepeatedResize => (surface' = surface /\ reconfigs' = reconfigs)]_vars

\* C12 (amended): the second of two Resized events with the same size leaves
\* the configuration as it is, but calls resize_surface once more (and
\* requests a redraw once more).
C12_RepeatedResizeKeepsConfig ==
    [][RepeatedResize => (surface' = surface /\ observed' = observed /\ reconfigs' = reconfigs + 1 /\ redraw_requested')]_vars

C12_Witness ==
    /\ lastEvent = "Resized"
    /\ streak = 2
    /\ reconfigs = 2
    /\ observed = <<(<<400, 300>>)>>
    /\ surface[1].config.width = 400
    /\ surface[1].config.height = 300


\* C13: a window event raised before the surface exists reaches no handler:
\* as long as create_surface has not succeeded and the loop has not been
\* started, no event has been handled, no frame attempted, no resize_surface
\* call made and nothing has panicked; every handled event finds a surface,
\* a device and a renderer.
C13_EarlyEventsReachNoHandler ==
    /\ (early /\ ~started)
          => /\ lastEvent = "none" /\ frame = NoFrame /\ reconfigs = 0 /\ ~rendered /\ ~closed
             /\ creation # "ok" => pc \in {"spawned", "creating", "notice"}
    /\ lastEvent # "none"
          => (surface # <<>> /\ devices # <<>> /\ renderers # <<>>)

C13_Witness ==
    /\ early
    /\ pc = "creating"
    /\ surface = <<>>
    /\ lastEvent = "none"


\* C14: a redraw whose get_current_texture fails stops there: it makes no
\* render_to_surface, present or poll call, it panics, and no event is
\* handled after it.
C14_AcquireFailureIsFatal ==
    (Has(frame.steps, "get_current_texture") /\ ~frame.acquired)
        => /\ frame.steps = <<"reset", "stroke", "get_current_texture">>
           /\ ~frame.done
           /\ pc = "panicked"
           /\ lastEvent = "RedrawRequested"

C14_Witness ==
    /\ Has(frame.steps, "get_current_texture")
    /\ ~frame.acquired
    /\ pc = "panicked"
    /\ rendered


\* C15: if Renderer::new fails, run panics there: the event loop is never
\* started, the renderer table is never installed, no event is ever handled,
\* and Renderer::new is not called again.
C15_RendererFailureIsFatal ==
    /\ renderer = "failed"
          => /\ pc = "panicked"
             /\ ~started
             /\ renderers = <<>>
             /\ lastEvent = "none" /\ ~closed /\ reconfigs = 0
             /\ frame = NoFrame /\ ~rendered
    /\ started => renderer = "ok"

C15_Witness ==
    /\ renderer = "failed"
    /\ creation = "ok"
    /\ surface # <<>>
    /\ pc = "panicked"


\* C16: every handled Resized event leaves a redraw requested, and, with
\* requested redraws delivered, it is followed by a RedrawRequested that
\* runs to its end on the configuration observed last, unless the loop
\* leaves the running state first (CloseRequested or a panic).
C16_ResizeLeadsToRedraw ==
    /\ [](lastEvent = "Resized" => redraw_requested)
    /\ (lastEvent = "Resized") ~> (pc # "running" \/ (lastEvent = "RedrawRequested" /\ frame.done /\ frame.source = observed[1]))

C16_Witness ==
    /\ lastEvent = "RedrawRequested"
    /\ pc = "running"
    /\ frame.done
    /\ size = <<(<<800, 600>>)>>
    /\ observed = <<(<<400, 300>>)>>
    /\ frame.source = <<400, 300>>
    /\ frame.texture = <<400, 300>>
    /\ ~redraw_requested


\* C17: handling a Resized event changes nothing of the surface but the
\* configured width and height, and leaves the device list and the renderer
\* table alone; every render_to_surface call uses the renderer stored for the
\* surface's device, built for that device and the surface's format.
C17_ResizeKeepsDeviceBinding ==
    [][/\ lastEvent' = "Resized"
            => /\ surface'[1].dev_id = surface[1].dev_id
               /\ surface'[1].format = surface[1].format
               /\ surface'[1].config.present_mode = "AutoVsync"
               /\ surface' = <<[surface[1] EXCEPT !.config.width = observed'[1][1], !.config.height = observed'[1][2]]>>
               /\ devices' = devices
               /\ renderers' = renderers
       /\ (lastEvent' = "RedrawRequested" /\ Has(frame'.steps, "render_to_surface"))
            => /\ frame'.device = surface'[1].dev_id
               /\ renderers'[frame'.device] = <<[device |-> frame'.device, format |-> surface'[1].format]>>]_vars

C17_Witness ==
    /\ lastEvent = "RedrawRequested"
    /\ frame.done
    /\ Len(devices) = 2
    /\ surface[1].dev_id = 2
    /\ frame.device = 2
    /\ size = <<(<<800, 600>>)>>
    /\ observed = <<(<<400, 300>>)>>
    /\ surface[1].config = [width |-> 400, height |-> 300, present_mode |-> "AutoVsync"]


\* C18: the scene of every frame that got as far as building it, and so the
\* scene handed to render_to_surface, holds exactly one rectangle, the one
\* computed from the configuration that frame read; nothing of an earlier
\* frame is left in it.
C18_SceneHoldsOneRectangle ==
    frame.steps # <<>>
        => /\ Len(scene) = 1
           /\ scene[1] = make_rect(target_extent(frame.source[1]), target_extent(frame.source[2]))
           /\ lastEvent = "RedrawRequested" => frame.source = <<surface[1].config.width, surface[1].config.height>>

C18_Witness ==
    /\ Has(frame.steps, "render_to_surface")
    /\ frame.reused
    /\ frame.source = <<400, 300>>
    /\ size = <<(<<800, 600>>)>>
    /\ Len(scene) = 1
    /\ scene[1].x1 = ToWide(280)

====
